---- MODULE Spec2Model ----
(***************************************************************************)
(* Model of the ThreadPool<Callable> template (thread_pool/thread_pool.hpp) *)
(* and of the Semaphore it is built on (tools/semaphore/semaphore.cpp).     *)
(*                                                                          *)
(* Two state machines share this module:                                    *)
(*   Spec / FairSpec : the pool.  Caller threads invoke the public methods, *)
(*                     worker threads run ThreadLoop.  Every Semaphore      *)
(*                     method is one critical section under m_lock, so the  *)
(*                     pool uses the semaphore operations as atomic steps.  *)
(*   SemSpec         : one Semaphore at the grain of its mutex and          *)
(*                     condition variable, called by several threads.       *)
(*                                                                          *)
(* A method that flows off its end without a return statement (Pause,       *)
(* Continue, Push) yields an indeterminate bool: the model draws it from    *)
(* {"true", "false"}.                                                       *)
(***************************************************************************)
EXTENDS Integers, Sequences, FiniteSets, TLC

(* ------------------------------------------------------------------------ *)
(* Bounds and constants                                                     *)
(* ------------------------------------------------------------------------ *)

\* thread::hardware_concurrency of the modelled host.
THREAD_MAX == 2

\* Number of items the callers push in one behaviour.
MaxItems == 2

\* Number of calls of public methods the callers make in one behaviour.
MaxCalls == 3

\* Priorities the pushed items carry (Callable::operator< compares them).
Prios == {1, 2}

\* Threads that call the pool's public methods.
Callers == {"c1", "c2"}

\* Threads that use the stand-alone Semaphore.
SemThreads == {"t1", "t2", "t3"}

\* Largest initial count of the stand-alone Semaphore.
MaxInit == 1

\* Largest sum of the n of all post(n) calls on the stand-alone Semaphore.
MaxPosted == 3

\* Number of items pushed on the work queue in one behaviour of QueueSpec.
MaxQueue == 3

\* Priorities of the items pushed in QueueSpec.
QueuePrios == {1, 2, 3}

\* Ids a worker thread can get: two overlapping SetNumOfThreads calls can
\* each add THREAD_MAX workers.
WorkerIds == 1..(2 * THREAD_MAX)

VARIABLES
    \* ThreadPool members
    m_status, m_threads, m_calls, m_to_remove,
    m_is_empty, m_actions, m_to_stop, m_running_threads,
    \* worker threads: position of each spawned thread in ThreadLoop
    t_pc,
    \* caller threads: position in the method called, its arguments, its
    \* loop counter
    pc, arg, i,
    \* the call that returned last: caller, method, arguments, value
    ret,
    \* history: ids of executed items in order, next fresh item id, the
    \* value nextItem had when Pause last returned with no Continue called
    \* since (0 otherwise), ids of the items queued when Finish(false) was
    \* called
    executed, nextItem, h_paused, h_abandoned,
    \* number of calls of public methods begun so far
    calls,
    \* the calls of Pop made so far (QueueSpec): the item each moved out of
    \* m_calls.top() and the item it handed back; the number of permits
    \* Pause has posted on m_actions
    popped, h_pausePosts,
    \* a stand-alone Semaphore and the threads using it (SemSpec)
    s_count, s_lock, s_pc, s_op, s_n, s_result, s_init, s_posted, s_granted

poolVars == <<m_status, m_threads, m_calls, m_to_remove,
              m_is_empty, m_actions, m_to_stop, m_running_threads>>
callVars == <<pc, arg, i, ret>>
histVars == <<executed, nextItem, h_paused, h_abandoned>>
semVars  == <<s_count, s_lock, s_pc, s_op, s_n, s_result,
              s_init, s_posted, s_granted>>
auxVars == <<popped, h_pausePosts>>
vars == <<poolVars, t_pc, callVars, histVars, calls, auxVars, semVars>>

(* ------------------------------------------------------------------------ *)
(* Semaphore, as used by the pool (each method is atomic under m_lock)      *)
(* ------------------------------------------------------------------------ *)

\* IsAvailable with the comparison off by one.
IsAvailable_OffByOne(count) == count >= 0

\* Semaphore::IsAvailable
IsAvailable(count) == count > 0

\* Semaphore::post(n): the count after the call.
post(count, n) == count + n

\* Semaphore::wait(): the call can complete only when IsAvailable.
wait(count) == count - 1

\* Semaphore::timed_wait(seconds(0)) as called by try_wait(): with nobody
\* else holding a permit back, wait_for returns IsAvailable() and the count
\* drops by that result.
try_wait(count) == IF IsAvailable(count) THEN count - 1 ELSE count

(* ------------------------------------------------------------------------ *)
(* priority_queue<Callable> m_calls: a binary max-heap in a vector          *)
(* ------------------------------------------------------------------------ *)

\* Callable::operator<
Less(a, b) == a.prio < b.prio

Swap(q, a, b) == [q EXCEPT ![a] = q[b], ![b] = q[a]]

\* A push_heap that leaves the new element at the end.
SiftUp_Never(q, k) == q

RECURSIVE SiftUp(_, _)
\* std::push_heap: move the new element up while its parent is less.
SiftUp(q, k) ==
    IF k > 1 /\ Less(q[k \div 2], q[k])
    THEN SiftUp(Swap(q, k, k \div 2), k \div 2)
    ELSE q

\* priority_queue::push
PushHeap(q, x) == SiftUp(Append(q, x), Len(q) + 1)

RECURSIVE SiftHole(_, _, _)
\* std::__adjust_heap, first half: walk the hole at k down to a leaf of a
\* heap of n elements, always following the child that is not less.
SiftHole(q, k, n) ==
    LET l == 2 * k
        r == 2 * k + 1
    IN  IF r <= n
        THEN LET c == IF Less(q[r], q[l]) THEN l ELSE r
             IN  SiftHole([q EXCEPT ![k] = q[c]], c, n)
        ELSE IF l = n
             THEN <<[q EXCEPT ![k] = q[l]], l>>
             ELSE <<q, k>>

\* priority_queue::pop (std::pop_heap then pop_back): the last element is
\* taken out, the hole left by the top walks down and the element is pushed
\* up from there.
PopHeap(q) ==
    IF Len(q) = 1 THEN <<>>
    ELSE LET n    == Len(q) - 1
             last == q[Len(q)]
             h    == SiftHole(SubSeq(q, 1, n), 1, n)
         IN  SiftUp([h[1] EXCEPT ![h[2]] = last], h[2])

\* ThreadPool::Pop: the element it moves out of m_calls.top().
Pop(q) == q[1]

\* ThreadPool::GetSize
GetSize == Cardinality(m_threads)

\* ThreadPool::RemoveThreads(nthread_): the body is empty, the worker map is
\* left as it is.
RemoveThreads(threads, nthread_) == threads

\* Arguments of a call: nthread_, let_complete_ and call_;
NoItem == [id |-> 0, prio |-> 0]
\* add_ is the nthread_ that SetNumOfThreads hands to AddThreads, dtor_
\* tells the Finish(false) of the destructor from a call of Finish.
NoArg ==
    [nthread_ |-> 0, add_ |-> 0, let_complete_ |-> FALSE, call_ |-> NoItem,
     dtor_ |-> FALSE]

NoRet == [caller |-> "none", method |-> "none", arg |-> NoArg, value |-> "none"]

\* What a method that ends without a return statement hands back.
Indeterminate == {"true", "false"}

QueuedIds == {m_calls[k].id : k \in 1..Len(m_calls)}
ExecutedIds == {executed[k] : k \in 1..Len(executed)}

(* ------------------------------------------------------------------------ *)
(* Initial state: ThreadPool(threads_num_) has returned                     *)
(* ------------------------------------------------------------------------ *)

\* The stand-alone Semaphore before SemSpec starts it.
SemIdle ==
    /\ s_init = 0
    /\ s_count = 0
    /\ s_lock = "free"
    /\ s_pc = [t \in SemThreads |-> "idle"]
    /\ s_op = [t \in SemThreads |-> "none"]
    /\ s_n = [t \in SemThreads |-> 0]
    /\ s_result = [t \in SemThreads |-> "none"]
    /\ s_posted = 0
    /\ s_granted = 0

\* ThreadPool::ThreadPool(threads_num_): m_running_threads is initialised
\* to threads_num_ and then AddThreads(threads_num_) posts threads_num_ more.
PoolInit(threads_num_) ==
    /\ m_status = "RUNNING"
    /\ m_threads = 1..threads_num_
    /\ m_calls = <<>>
    /\ m_to_remove = <<>>
    /\ m_is_empty = 0
    /\ m_actions = 0
    /\ m_to_stop = 0
    /\ m_running_threads = post(threads_num_, threads_num_)
    /\ t_pc = [w \in 1..threads_num_ |-> "spawned"]
    /\ pc = [c \in Callers |-> "idle"]
    /\ arg = [c \in Callers |-> NoArg]
    /\ i = [c \in Callers |-> 0]
    /\ ret = NoRet
    /\ executed = <<>>
    /\ nextItem = 1
    /\ h_paused = 0
    /\ h_abandoned = {}
    /\ calls = 0
    /\ popped = <<>>
    /\ h_pausePosts = 0

Init == \E threads_num_ \in 0..THREAD_MAX : PoolInit(threads_num_) /\ SemIdle

(* ------------------------------------------------------------------------ *)
(* Worker threads                                                           *)
(* ------------------------------------------------------------------------ *)

\* A ThreadLoop that waits for m_actions, pops and runs an item, and never
\* waits on m_running_threads.
ThreadLoop_NoGate(w) ==
    /\ w \in m_threads
    /\ t_pc[w] = "spawned"
    /\ IsAvailable(m_actions)
    /\ Len(m_calls) > 0
    /\ m_actions' = wait(m_actions)
    /\ executed' = Append(executed, Pop(m_calls).id)
    /\ m_calls' = PopHeap(m_calls)
    /\ UNCHANGED <<m_status, m_threads, m_to_remove, m_is_empty, m_to_stop,
                   m_running_threads, t_pc, callVars, nextItem, h_paused,
                   h_abandoned, calls, auxVars, semVars>>

\* A ThreadLoop that takes a permit of m_running_threads, waits for
\* m_actions, pops and runs an item and gives the permit back, and never
\* reads m_status.
ThreadLoop_NoStatus(w) ==
    /\ w \in m_threads
    /\ t_pc[w] = "spawned"
    /\ IsAvailable(m_running_threads)
    /\ IsAvailable(m_actions)
    /\ Len(m_calls) > 0
    /\ m_actions' = wait(m_actions)
    /\ executed' = Append(executed, Pop(m_calls).id)
    /\ m_calls' = PopHeap(m_calls)
    /\ UNCHANGED <<m_status, m_threads, m_to_remove, m_is_empty, m_to_stop,
                   m_running_threads, t_pc, callVars, nextItem, h_paused,
                   h_abandoned, calls, auxVars, semVars>>

\* ThreadPool::ThreadLoop: the body is empty, the thread started by
\* AddThreads returns at once.
ThreadLoop(w) ==
    /\ w \in m_threads
    /\ t_pc[w] = "spawned"
    /\ t_pc' = [t_pc EXCEPT ![w] = "exited"]
    /\ UNCHANGED <<poolVars, callVars, histVars, calls, auxVars, semVars>>

(* ------------------------------------------------------------------------ *)
(* Public methods, called from the caller threads                           *)
(* ------------------------------------------------------------------------ *)

\* The destructor has been entered: the pool takes no further call.
Destroyed == ret.method = "~ThreadPool" \/ \E c \in Callers : arg[c].dtor_

\* The members are destroyed after the destructor's body.  m_threads holds
\* std::thread objects that nothing joins or detaches, and destroying a
\* joinable std::thread calls std::terminate.
DestroyMembers(threads) == IF threads = {} THEN "void" ELSE "terminate"

\* Caller c, which is in no method, calls one.
Begin(c) ==
    /\ pc[c] = "idle"
    /\ ~Destroyed
    /\ calls < MaxCalls
    /\ calls' = calls + 1

\* Caller c returns value r from method m called with arguments a.
Return(c, m, a, r) ==
    /\ pc' = [pc EXCEPT ![c] = "idle"]
    /\ arg' = [arg EXCEPT ![c] = NoArg]
    /\ i' = [i EXCEPT ![c] = 0]
    /\ ret' = [caller |-> c, method |-> m, arg |-> a, value |-> r]

\* Caller c enters method body position p with arguments a.
Enter(c, p, a) ==
    /\ pc' = [pc EXCEPT ![c] = p]
    /\ arg' = [arg EXCEPT ![c] = a]
    /\ i' = [i EXCEPT ![c] = 0]
    /\ UNCHANGED ret

\* ThreadPool::Pause, the switch on m_status.
PauseCall(c) ==
    /\ Begin(c)
    /\ CASE m_status = "PAUSED"   -> Return(c, "Pause", NoArg, "true")
         [] m_status = "FINISHED" -> Return(c, "Pause", NoArg, "false")
         [] m_status = "RUNNING"  -> Enter(c, "pause_loop", NoArg)
    /\ UNCHANGED <<poolVars, t_pc, histVars, auxVars, semVars>>

\* ThreadPool::Pause, one iteration of the loop: m_running_threads.wait().
PauseWait(c) ==
    /\ pc[c] = "pause_loop"
    /\ i[c] < GetSize
    /\ IsAvailable(m_running_threads)
    /\ m_running_threads' = wait(m_running_threads)
    /\ i' = [i EXCEPT ![c] = i[c] + 1]
    /\ UNCHANGED <<m_status, m_threads, m_calls, m_to_remove, m_is_empty,
                   m_actions, m_to_stop, t_pc, pc, arg, ret,
                   histVars, calls, auxVars, semVars>>

\* ThreadPool::Pause, after the loop: m_actions.post(GetSize()) and the end
\* of the function, which has no return statement and assigns no status.
PausePost(c) ==
    /\ pc[c] = "pause_loop"
    /\ ~(i[c] < GetSize)
    /\ m_actions' = post(m_actions, GetSize)
    /\ \E r \in Indeterminate : Return(c, "Pause", NoArg, r)
    /\ h_paused' = nextItem
    /\ h_pausePosts' = h_pausePosts + GetSize
    /\ UNCHANGED <<m_status, m_threads, m_calls, m_to_remove, m_is_empty,
                   m_to_stop, m_running_threads, t_pc,
                   executed, nextItem, h_abandoned, calls, popped, semVars>>

\* ThreadPool::Continue: the count of m_running_threads after the call.
\* Only the PAUSED branch posts.
ContinuePermits ==
    IF m_status = "PAUSED" THEN post(m_running_threads, GetSize)
    ELSE m_running_threads

\* ThreadPool::Continue: the values the call can return.  The PAUSED branch
\* has no return statement.
ContinueResults ==
    CASE m_status = "RUNNING"  -> {"true"}
      [] m_status = "FINISHED" -> {"false"}
      [] m_status = "PAUSED"   -> Indeterminate

\* ThreadPool::Continue
ContinueCall(c) ==
    /\ Begin(c)
    /\ m_running_threads' = ContinuePermits
    /\ \E r \in ContinueResults : Return(c, "Continue", NoArg, r)
    /\ h_paused' = 0
    /\ UNCHANGED <<m_status, m_threads, m_calls, m_to_remove, m_is_empty,
                   m_actions, m_to_stop, t_pc,
                   executed, nextItem, h_abandoned, auxVars, semVars>>

\* ThreadPool::Finish, the test of m_status.
FinishCall(c, let_complete_) ==
    /\ Begin(c)
    /\ LET a == [NoArg EXCEPT !.let_complete_ = let_complete_]
       IN  IF m_status = "FINISHED"
           THEN /\ Return(c, "Finish", a, "false")
                /\ UNCHANGED h_abandoned
           ELSE /\ Enter(c, "finish_continue", a)
                /\ h_abandoned' = IF let_complete_ THEN h_abandoned
                                  ELSE h_abandoned \cup QueuedIds
    /\ UNCHANGED <<poolVars, t_pc, executed, nextItem, h_paused, auxVars, semVars>>

\* ThreadPool::~ThreadPool: Finish(false), on a pool no other thread is
\* using.  On a FINISHED pool Finish returns false at once and the members
\* are destroyed.
DestructorCall(c) ==
    /\ \A o \in Callers : pc[o] = "idle"
    /\ ~Destroyed
    /\ LET a == [NoArg EXCEPT !.dtor_ = TRUE]
       IN  IF m_status = "FINISHED"
           THEN /\ Return(c, "~ThreadPool", a, DestroyMembers(m_threads))
                /\ UNCHANGED h_abandoned
           ELSE /\ Enter(c, "finish_continue", a)
                /\ h_abandoned' = h_abandoned \cup QueuedIds
    /\ UNCHANGED <<poolVars, t_pc, executed, nextItem, h_paused, calls,
                   auxVars, semVars>>

\* ThreadPool::Finish, the call of Continue(); its result is dropped.
FinishContinue(c) ==
    /\ pc[c] = "finish_continue"
    /\ m_running_threads' = ContinuePermits
    /\ pc' = [pc EXCEPT ![c] = "finish_wait"]
    /\ h_paused' = 0
    /\ UNCHANGED <<m_status, m_threads, m_calls, m_to_remove, m_is_empty,
                   m_actions, m_to_stop, t_pc, arg, i, ret,
                   executed, nextItem, h_abandoned, calls, auxVars, semVars>>

\* ThreadPool::Finish, the rest: if (let_complete_) m_is_empty.wait(), then
\* m_status = FINISHED, RemoveThreads(GetSize()) and return true.  When the
\* destructor made the call, the members are destroyed next.
FinishProceed(c) ==
    /\ pc[c] = "finish_wait"
    /\ IF arg[c].let_complete_
       THEN /\ IsAvailable(m_is_empty)
            /\ m_is_empty' = wait(m_is_empty)
       ELSE UNCHANGED m_is_empty
    /\ m_status' = "FINISHED"
    /\ m_threads' = RemoveThreads(m_threads, GetSize)
    /\ IF arg[c].dtor_
       THEN Return(c, "~ThreadPool", arg[c], DestroyMembers(m_threads'))
       ELSE Return(c, "Finish", arg[c], "true")
    /\ UNCHANGED <<m_calls, m_to_remove, m_actions, m_to_stop,
                   m_running_threads, t_pc, histVars, calls, auxVars, semVars>>

\* The ceiling test of SetNumOfThreads, off by one.
ExceedsMax_OffByOne(nthread_) == nthread_ > THREAD_MAX + 1

\* ThreadPool::SetNumOfThreads, the test that throws length_error.
ExceedsMax(nthread_) == nthread_ > THREAD_MAX

\* ThreadPool::SetNumOfThreads up to the call of AddThreads or
\* RemoveThreads.  RemoveThreads returns at once, so the shrinking branch
\* runs to the return statement in the same step.
SetNumOfThreadsCall(c, nthread_) ==
    /\ Begin(c)
    /\ LET a == [NoArg EXCEPT !.nthread_ = nthread_]
       IN  CASE m_status = "FINISHED" ->
                    /\ Return(c, "SetNumOfThreads", a, "false")
                    /\ UNCHANGED m_threads
             [] m_status # "FINISHED" /\ ExceedsMax(nthread_) ->
                    /\ Return(c, "SetNumOfThreads", a, "length_error")
                    /\ UNCHANGED m_threads
             [] m_status # "FINISHED" /\ ~ExceedsMax(nthread_)
                                      /\ GetSize <= nthread_ ->
                    /\ Enter(c, "add_threads",
                             [a EXCEPT !.add_ = nthread_ - GetSize])
                    /\ UNCHANGED m_threads
             [] OTHER ->
                    /\ m_threads' = RemoveThreads(m_threads, GetSize - nthread_)
                    /\ Return(c, "SetNumOfThreads", a, "true")
    /\ UNCHANGED <<m_status, m_calls, m_to_remove, m_is_empty, m_actions,
                   m_to_stop, m_running_threads, t_pc, histVars, auxVars, semVars>>

\* ThreadPool::AddThreads, one iteration of the loop: a thread is started on
\* ThreadLoop and inserted under its id.
AddThreadsSpawn(c) ==
    /\ pc[c] = "add_threads"
    /\ i[c] < arg[c].add_
    /\ LET id == Cardinality(m_threads) + 1
       IN  /\ m_threads' = m_threads \cup {id}
           /\ t_pc' = [w \in m_threads \cup {id} |->
                          IF w = id THEN "spawned" ELSE t_pc[w]]
    /\ i' = [i EXCEPT ![c] = i[c] + 1]
    /\ UNCHANGED <<m_status, m_calls, m_to_remove, m_is_empty, m_actions,
                   m_to_stop, m_running_threads, pc, arg, ret,
                   histVars, calls, auxVars, semVars>>

\* ThreadPool::AddThreads, m_running_threads.post(nthread_), and the return
\* true of SetNumOfThreads.
AddThreadsPost(c) ==
    /\ pc[c] = "add_threads"
    /\ ~(i[c] < arg[c].add_)
    /\ m_running_threads' = post(m_running_threads, arg[c].add_)
    /\ Return(c, "SetNumOfThreads", [arg[c] EXCEPT !.add_ = 0], "true")
    /\ UNCHANGED <<m_status, m_threads, m_calls, m_to_remove, m_is_empty,
                   m_actions, m_to_stop, t_pc, histVars, calls, auxVars, semVars>>

\* Push without the test of m_status.
PushCall_NoFinishedTest(c, prio) ==
    /\ Begin(c)
    /\ nextItem <= MaxItems
    /\ nextItem' = nextItem + 1
    /\ Enter(c, "push_lock",
             [NoArg EXCEPT !.call_ = [id |-> nextItem, prio |-> prio]])
    /\ UNCHANGED <<poolVars, t_pc, executed, h_paused, h_abandoned, auxVars, semVars>>

\* ThreadPool::Push, the test of m_status.
PushCall(c, prio) ==
    /\ Begin(c)
    /\ nextItem <= MaxItems
    /\ nextItem' = nextItem + 1
    /\ IF m_status = "FINISHED"
       THEN Return(c, "Push", NoArg, "false")
       ELSE Enter(c, "push_lock",
                  [NoArg EXCEPT !.call_ = [id |-> nextItem, prio |-> prio]])
    /\ UNCHANGED <<poolVars, t_pc, executed, h_paused, h_abandoned, auxVars, semVars>>

\* ThreadPool::Push, the critical section under m_calls_lock:
\* m_calls.push(call_).
PushCritical(c) ==
    /\ pc[c] = "push_lock"
    /\ m_calls' = PushHeap(m_calls, arg[c].call_)
    /\ pc' = [pc EXCEPT ![c] = "push_post"]
    /\ UNCHANGED <<m_status, m_threads, m_to_remove, m_is_empty, m_actions,
                   m_to_stop, m_running_threads, t_pc, arg, i, ret,
                   histVars, calls, auxVars, semVars>>

\* A Push that posts two permits for its item.
PushPost_Twice(c) ==
    /\ pc[c] = "push_post"
    /\ m_actions' = post(m_actions, 2)
    /\ pc' = [pc EXCEPT ![c] = "push_try_wait"]
    /\ UNCHANGED <<m_status, m_threads, m_calls, m_to_remove, m_is_empty,
                   m_to_stop, m_running_threads, t_pc, arg, i, ret,
                   histVars, calls, auxVars, semVars>>

\* ThreadPool::Push, m_actions.post().
PushPost(c) ==
    /\ pc[c] = "push_post"
    /\ m_actions' = post(m_actions, 1)
    /\ pc' = [pc EXCEPT ![c] = "push_try_wait"]
    /\ UNCHANGED <<m_status, m_threads, m_calls, m_to_remove, m_is_empty,
                   m_to_stop, m_running_threads, t_pc, arg, i, ret,
                   histVars, calls, auxVars, semVars>>

\* ThreadPool::Push, m_is_empty.try_wait() and the end of the function,
\* which has no return statement.
PushTryWait(c) ==
    /\ pc[c] = "push_try_wait"
    /\ m_is_empty' = try_wait(m_is_empty)
    /\ \E r \in Indeterminate : Return(c, "Push", NoArg, r)
    /\ UNCHANGED <<m_status, m_threads, m_calls, m_to_remove, m_actions,
                   m_to_stop, m_running_threads, t_pc, histVars, calls, auxVars, semVars>>

(* ------------------------------------------------------------------------ *)
(* The pool                                                                 *)
(* ------------------------------------------------------------------------ *)

\* A caller thread goes on with the method it is in.
CallerStep(c) ==
    \/ PauseWait(c) \/ PausePost(c)
    \/ FinishContinue(c) \/ FinishProceed(c)
    \/ AddThreadsSpawn(c) \/ AddThreadsPost(c)
    \/ PushCritical(c) \/ PushPost(c) \/ PushTryWait(c)

Next ==
    \/ \E w \in WorkerIds : ThreadLoop(w)
    \/ \E c \in Callers : PauseCall(c)
    \/ \E c \in Callers : PauseWait(c)
    \/ \E c \in Callers : PausePost(c)
    \/ \E c \in Callers : ContinueCall(c)
    \/ \E c \in Callers, let_complete_ \in BOOLEAN : FinishCall(c, let_complete_)
    \/ \E c \in Callers : DestructorCall(c)
    \/ \E c \in Callers : FinishContinue(c)
    \/ \E c \in Callers : FinishProceed(c)
    \/ \E c \in Callers, nthread_ \in 0..(THREAD_MAX + 1) :
           SetNumOfThreadsCall(c, nthread_)
    \/ \E c \in Callers : AddThreadsSpawn(c)
    \/ \E c \in Callers : AddThreadsPost(c)
    \/ \E c \in Callers, prio \in Prios : PushCall(c, prio)
    \/ \E c \in Callers : PushCritical(c)
    \/ \E c \in Callers : PushPost(c)
    \/ \E c \in Callers : PushTryWait(c)

Spec == Init /\ [][Next]_vars

\* The host schedules every thread that can run: a worker that has been
\* started and a caller inside a method eventually take their next step.
FairSpec ==
    /\ Spec
    /\ \A w \in WorkerIds : WF_vars(ThreadLoop(w))
    /\ \A c \in Callers : WF_vars(CallerStep(c))

(* ------------------------------------------------------------------------ *)
(* Claims about the pool                                                    *)
(* ------------------------------------------------------------------------ *)

\* Number of times item k began to run.
TimesExecuted(k) == Cardinality({n \in 1..Len(executed) : executed[n] = k})

\* This step is a call that returns in the same step.
ReturnsAtOnce == calls' = calls + 1 /\ pc' = pc

\* C1: on a pool with at least one worker, every item whose Push put it in
\* the work queue is eventually executed, and exactly once, unless it was
\* still queued when Finish(false) was called; no item is ever executed
\* twice.
C1_PushedItemExecutedOnce ==
    /\ [](\A k \in 1..MaxItems : TimesExecuted(k) <= 1)
    /\ \A k \in 1..MaxItems :
           (k \in QueuedIds /\ GetSize > 0)
               ~> (TimesExecuted(k) = 1 \/ k \in h_abandoned)

\* C3: from the return of a Pause() that found the pool RUNNING until the
\* next call of Continue(), no worker starts an item.
C3_NoStartWhilePaused ==
    [][(h_paused > 0 /\ h_paused' > 0) => executed' = executed]_vars

\* Pause() has returned on a pool with workers, no Continue() was called
\* since, and an item pushed after that return is queued and signalled.
C3_Witness ==
    /\ h_paused > 0
    /\ GetSize > 0
    /\ IsAvailable(m_actions)
    /\ \E k \in QueuedIds : k >= h_paused

\* C4: a Continue() called after Pause() returned, with no Continue() in
\* between, posts GetSize() permits on m_running_threads, leaves the status
\* RUNNING and returns true.
C4_ContinuePostsPermits ==
    [][(h_paused > 0 /\ ReturnsAtOnce /\ ret'.method = "Continue") =>
           /\ m_running_threads' = m_running_threads + GetSize
           /\ m_status' = "RUNNING"
           /\ ret'.value = "true"]_vars

\* C5: Finish(true) passes its drain wait only with the work queue empty,
\* and, called with items queued on a pool with workers, it does pass it:
\* the call blocks until the items have run and then sets FINISHED and
\* returns.
C5_FinishDrains ==
    /\ [][\A c \in Callers :
             (pc[c] = "finish_wait" /\ arg[c].let_complete_ /\ pc'[c] = "idle")
                 => m_calls = <<>>]_vars
    /\ \A c \in Callers :
           (/\ pc[c] = "finish_wait" /\ arg[c].let_complete_
            /\ m_calls # <<>> /\ GetSize > 0)
               ~> (pc[c] = "idle" /\ m_status = "FINISHED")

\* C6: an item that was in the work queue when Finish(false) was called is
\* never executed.
C6_AbandonedNeverExecuted == h_abandoned \cap ExecutedIds = {}

\* Finish(false) was called with items queued on a pool with workers and has
\* returned true.
C6_Witness ==
    /\ h_abandoned # {}
    /\ h_abandoned \subseteq QueuedIds
    /\ GetSize > 0
    /\ m_status = "FINISHED"
    /\ ret.method = "Finish" /\ ret.value = "true" /\ ~ret.arg.let_complete_

\* C7: once m_status is FINISHED it stays FINISHED, and every call of a
\* public method made from then on returns false in its first step and
\* leaves the queue, the worker map and the four semaphores as they are.
C7_FinishedIsTerminal ==
    [][m_status = "FINISHED" =>
           /\ m_status' = "FINISHED"
           /\ (calls' # calls) =>
                  /\ pc' = pc
                  /\ ret'.value = "false"
                  /\ UNCHANGED <<poolVars, t_pc>>]_vars

\* On a FINISHED pool that still holds workers and queued items, a call of
\* SetNumOfThreads has returned false.
C7_Witness ==
    /\ m_status = "FINISHED"
    /\ ret.method = "SetNumOfThreads" /\ ret.value = "false"
    /\ GetSize > 0
    /\ m_calls # <<>>

\* C8: when Finish() has returned true the worker map is empty (GetSize()
\* is 0) and every worker thread has ended.
C8_FinishLeavesNoWorker ==
    (ret.method = "Finish" /\ ret.value = "true") =>
        /\ GetSize = 0
        /\ \A w \in DOMAIN t_pc : t_pc[w] = "exited"

\* This step is caller c calling SetNumOfThreads(nthread_) with nthread_
\* above THREAD_MAX.
CallsAboveMax(c) ==
    /\ calls' = calls + 1
    /\ pc[c] = "idle"
    /\ \/ arg'[c].nthread_ > THREAD_MAX
       \/ /\ pc' = pc
          /\ ret'.caller = c
          /\ ret'.method = "SetNumOfThreads"
          /\ ret'.arg.nthread_ > THREAD_MAX

\* C9: SetNumOfThreads(n) with n above THREAD_MAX on a pool that is not
\* FINISHED throws length_error and leaves the status, the worker map, the
\* queue and the semaphores as they are.
C9_AboveMaxThrows ==
    [][\A c \in Callers :
          (m_status # "FINISHED" /\ CallsAboveMax(c)) =>
              /\ pc' = pc
              /\ ret'.value = "length_error"
              /\ UNCHANGED <<poolVars, t_pc>>]_vars

\* SetNumOfThreads has thrown length_error on a pool that is not FINISHED
\* and holds workers and a queued item.
C9_Witness ==
    /\ ret.method = "SetNumOfThreads" /\ ret.value = "length_error"
    /\ ret.arg.nthread_ > THREAD_MAX
    /\ m_status # "FINISHED"
    /\ GetSize > 0
    /\ m_calls # <<>>

\* C10: when SetNumOfThreads(target) has returned true, no other resize is
\* under way and no worker is waiting to retire, the worker map holds
\* exactly target workers.
C10_SizeIsTarget ==
    (/\ ret.method = "SetNumOfThreads" /\ ret.value = "true"
     /\ m_to_remove = <<>>
     /\ \A c \in Callers : pc[c] # "add_threads")
        => GetSize = ret.arg.nthread_

(* ------------------------------------------------------------------------ *)
(* C13, C14, C15, C18, C19, C20                                             *)
(* ------------------------------------------------------------------------ *)

\* Calls of Push that have inserted their item and not yet posted m_actions.
PushesToSignal == Cardinality({c \in Callers : pc[c] = "push_post"})

\* C13 as claimed: the count of m_actions is at most the number of items in
\* the work queue, and equals it whenever no Push is under way.
C13_PermitsMatchQueue ==
    /\ m_actions <= Len(m_calls)
    /\ (\A c \in Callers : pc[c] \notin {"push_lock", "push_post"})
           => m_actions = Len(m_calls)

\* C13 as amended: the count of m_actions, plus the items inserted by a Push
\* that has not posted yet, equals the number of items in the work queue
\* plus the permits Pause has posted on m_actions; so the count exceeds the
\* queue by the permits of Pause and by nothing else.
C13_PermitsMatchQueueAndPauses ==
    /\ m_actions + PushesToSignal = Len(m_calls) + h_pausePosts
    /\ m_actions <= Len(m_calls) + h_pausePosts

\* With no call under way, an item is queued, a Pause has posted on
\* m_actions, and the count is above the number of queued items.
C13_Witness ==
    /\ \A c \in Callers : pc[c] = "idle"
    /\ Len(m_calls) > 0
    /\ h_pausePosts > 0
    /\ m_actions > Len(m_calls)

\* C14: while the pool is RUNNING and no Pause or AddThreads is under way,
\* the permits of m_running_threads (no worker ever holds one) are as many
\* as the workers in m_threads; in particular right after construction.
C14_PermitsEqualWorkers ==
    (/\ m_status = "RUNNING"
     /\ \A c \in Callers : pc[c] \notin {"pause_loop", "add_threads"})
        => m_running_threads = GetSize

\* C15: Pause, Continue and SetNumOfThreads exclude one another, so the
\* worker count is always one that some serial order of the calls produces.
\* Run one after the other, SetNumOfThreads(n) adds n - GetSize() workers
\* to the GetSize() it finds and n is at most THREAD_MAX, so no serial order
\* leaves more than THREAD_MAX workers.
C15_WorkerCountIsSerial == GetSize <= THREAD_MAX

\* This step is caller c calling Pause() while no other call is in
\* progress.
CallsPause(c) ==
    /\ calls' = calls + 1
    /\ \A o \in Callers : pc[o] = "idle"
    /\ \/ pc'[c] = "pause_loop"
       \/ pc' = pc /\ ret'.caller = c /\ ret'.method = "Pause"

\* C18: on a pool that has workers, a Pause() that went through its loop
\* with no other call in progress returns with the count of
\* m_running_threads at 0 after taking GetSize() permits, with the status
\* PAUSED and with the value true; a Pause() called after a Pause() has
\* returned, with no Continue in between, returns true at once and takes
\* no permit.
C18_PauseTakesAllPermits ==
    [][\A c \in Callers :
         /\ (/\ pc[c] = "pause_loop" /\ pc'[c] = "idle"
             /\ GetSize > 0
             /\ \A o \in Callers \ {c} : pc[o] = "idle")
                => /\ i[c] = GetSize
                   /\ m_running_threads' = 0
                   /\ m_status' = "PAUSED"
                   /\ ret'.value = "true"
         /\ (h_paused > 0 /\ GetSize > 0 /\ CallsPause(c))
                => /\ pc' = pc
                   /\ ret'.value = "true"
                   /\ m_running_threads' = m_running_threads]_vars

\* C19: on a pool that has workers, a Finish(true) that has reached its
\* drain wait with the work queue empty returns, unless a Push puts an item in the queue first.
C19_FinishTrueReturns ==
    \A c \in Callers :
        (/\ pc[c] = "finish_wait" /\ arg[c].let_complete_
         /\ m_calls = <<>> /\ GetSize > 0)
            ~> (pc[c] = "idle" \/ m_calls # <<>>)

\* C20: the destructor performs Finish(false).  Called on a FINISHED pool
\* it changes nothing; otherwise it passes the drain wait without taking
\* m_is_empty, no item that was queued at destruction has been executed,
\* and when it returns the worker map is empty and every worker thread has
\* ended.
C20_DestructorIsFinishFalse ==
    [][\A c \in Callers :
         /\ (/\ m_status = "FINISHED" /\ pc[c] = "idle"
             /\ ret'.caller = c /\ ret'.method = "~ThreadPool"
             /\ ret' # ret)
                => UNCHANGED <<poolVars, t_pc>>
         /\ (pc[c] = "finish_wait" /\ arg[c].dtor_ /\ pc'[c] = "idle")
                => /\ m_is_empty' = m_is_empty
                   /\ h_abandoned \cap ExecutedIds = {}
                   /\ m_threads' = {}
                   /\ \A w \in DOMAIN t_pc : t_pc'[w] = "exited"]_vars

(* ------------------------------------------------------------------------ *)
(* The work queue alone: m_calls.push as Push makes it, and Pop             *)
(* ------------------------------------------------------------------------ *)

\* The items of a queue, as a set.
Items(q) == {q[k] : k \in 1..Len(q)}

\* ThreadPool::Pop has no return statement: the Callable the caller gets is
\* indeterminate.  It can be the item moved out of the queue, another item,
\* or no item of the queue at all.
PopReturn(q) == Items(q) \cup {NoItem}

\* ThreadPool::Push, the critical section, with a fresh item of priority
\* prio.
QPush(prio) ==
    /\ nextItem <= MaxQueue
    /\ m_calls' = PushHeap(m_calls, [id |-> nextItem, prio |-> prio])
    /\ nextItem' = nextItem + 1
    /\ UNCHANGED <<m_status, m_threads, m_to_remove, m_is_empty, m_actions,
                   m_to_stop, m_running_threads, t_pc, callVars, executed,
                   h_paused, h_abandoned, calls, auxVars, semVars>>

\* ThreadPool::Pop on a queue that holds an item.
QPop ==
    /\ Len(m_calls) > 0
    /\ \E v \in PopReturn(m_calls) :
           popped' = Append(popped, [top |-> Pop(m_calls), value |-> v])
    /\ m_calls' = PopHeap(m_calls)
    /\ UNCHANGED <<m_status, m_threads, m_to_remove, m_is_empty, m_actions,
                   m_to_stop, m_running_threads, t_pc, callVars, histVars,
                   calls, h_pausePosts, semVars>>

QueueInit == PoolInit(0) /\ SemIdle

QueueNext ==
    \/ \E prio \in QueuePrios : QPush(prio)
    \/ QPop

QueueSpec == QueueInit /\ [][QueueNext]_vars

\* This step is a call of Pop.
PopStep == Len(popped') = Len(popped) + 1

(* ------------------------------------------------------------------------ *)
(* C11, C12                                                                 *)
(* ------------------------------------------------------------------------ *)

\* C11: every Pop returns an item of the queue that is the maximum under
\* operator< of the items queued at the call, so that items of pairwise
\* distinct priorities come out in strictly descending priority order.
C11_PopReturnsMaximum ==
    [][PopStep =>
          LET v == popped'[Len(popped')].value
          IN  /\ v \in Items(m_calls)
              /\ \A x \in Items(m_calls) : ~Less(v, x)]_vars

\* C12 as claimed: of two items of equal priority the one pushed first is
\* moved out of the queue first.
C12_EqualPriorityInPushOrder ==
    /\ \A j, k \in 1..Len(popped) :
           (j < k /\ popped[j].top.prio = popped[k].top.prio)
               => popped[j].top.id < popped[k].top.id
    /\ \A j \in 1..Len(popped) : \A x \in Items(m_calls) :
           ~(x.prio = popped[j].top.prio /\ x.id < popped[j].top.id)

\* C12 as amended: Pop moves out of the queue an item that no queued item
\* exceeds in priority, and only that item leaves the queue; among items of
\* equal priority the order is the heap's, not the order of the pushes.
C12_PopRemovesAMaximum ==
    [][PopStep =>
          LET t == popped'[Len(popped')].top
          IN  /\ t \in Items(m_calls)
              /\ \A x \in Items(m_calls) : ~Less(t, x)
              /\ Items(m_calls') = Items(m_calls) \ {t}
              /\ Len(m_calls') = Len(m_calls) - 1]_vars

\* An item was moved out of the queue while an item of the same priority
\* that was pushed before it is still queued.
C12_Witness ==
    \E j \in 1..Len(popped) : \E x \in Items(m_calls) :
        x.prio = popped[j].top.prio /\ x.id < popped[j].top.id

(* ------------------------------------------------------------------------ *)
(* The Semaphore at the grain of m_lock and m_condition                     *)
(* ------------------------------------------------------------------------ *)

\* Semaphore::Semaphore(init_count_)
SemInit ==
    /\ PoolInit(0)
    /\ s_init \in 0..MaxInit
    /\ s_count = s_init
    /\ s_lock = "free"
    /\ s_pc = [t \in SemThreads |-> "idle"]
    /\ s_op = [t \in SemThreads |-> "none"]
    /\ s_n = [t \in SemThreads |-> 0]
    /\ s_result = [t \in SemThreads |-> "none"]
    /\ s_posted = 0
    /\ s_granted = 0

SemPoolUnchanged ==
    UNCHANGED <<poolVars, t_pc, callVars, histVars, calls, auxVars>>

\* The scope of the unique_lock guard ends: m_lock is released and the
\* method returns r.
SemReturn(t, r) ==
    /\ s_lock' = "free"
    /\ s_pc' = [s_pc EXCEPT ![t] = "idle"]
    /\ s_result' = [s_result EXCEPT ![t] = r]

\* A thread calls post(n), wait(), try_wait() or timed_wait(timeout_ > 0)
\* and reaches the construction of the lock guard.
SemCall(t, o, n) ==
    /\ s_pc[t] = "idle"
    /\ s_posted + n <= MaxPosted
    /\ s_pc' = [s_pc EXCEPT ![t] = "lock"]
    /\ s_op' = [s_op EXCEPT ![t] = o]
    /\ s_n' = [s_n EXCEPT ![t] = n]
    /\ s_result' = [s_result EXCEPT ![t] = "none"]
    /\ UNCHANGED <<s_count, s_lock, s_init, s_posted, s_granted>>
    /\ SemPoolUnchanged

\* unique_lock<mutex> guard(m_lock), and the re-locking of m_lock when a
\* wait on m_condition ends.
SemLock(t) ==
    /\ s_pc[t] \in {"lock", "woken", "timed_out"}
    /\ s_lock = "free"
    /\ s_lock' = t
    /\ s_pc' = [s_pc EXCEPT ![t] =
                   CASE s_pc[t] = "timed_out" -> "last_pred"
                     [] s_op[t] = "post"      -> "post"
                     [] OTHER                 -> "pred"]
    /\ UNCHANGED <<s_count, s_op, s_n, s_result, s_init, s_posted, s_granted>>
    /\ SemPoolUnchanged

\* Semaphore::post without m_condition.notify_all().
SemPost_NoNotify(t) ==
    /\ s_pc[t] = "post"
    /\ s_lock = t
    /\ s_count' = post(s_count, s_n[t])
    /\ s_posted' = s_posted + s_n[t]
    /\ s_lock' = "free"
    /\ s_pc' = [s_pc EXCEPT ![t] = "idle"]
    /\ s_result' = [s_result EXCEPT ![t] = "void"]
    /\ UNCHANGED <<s_op, s_n, s_init, s_granted>>
    /\ SemPoolUnchanged

\* Semaphore::post: m_count += n; m_condition.notify_all().
SemPost(t) ==
    /\ s_pc[t] = "post"
    /\ s_lock = t
    /\ s_count' = post(s_count, s_n[t])
    /\ s_posted' = s_posted + s_n[t]
    /\ s_lock' = "free"
    /\ s_pc' = [u \in SemThreads |->
                   CASE u = t                             -> "idle"
                     [] s_pc[u] \in {"cv_wait", "cv_timed"} -> "woken"
                     [] OTHER                             -> s_pc[u]]
    /\ s_result' = [s_result EXCEPT ![t] = "void"]
    /\ UNCHANGED <<s_op, s_n, s_init, s_granted>>
    /\ SemPoolUnchanged

\* Semaphore::wait and Semaphore::timed_wait: the predicate IsAvailable()
\* is evaluated under m_lock by m_condition.wait / wait_for.  When it holds
\* the count is decremented and the method returns; otherwise m_lock is
\* released and the thread blocks on m_condition.  A wait_for whose timeout
\* is zero (try_wait) times out at once.
SemPred(t) ==
    /\ s_pc[t] = "pred"
    /\ s_lock = t
    /\ IF IsAvailable(s_count)
       THEN /\ s_count' = wait(s_count)
            /\ s_granted' = s_granted + 1
            /\ SemReturn(t, IF s_op[t] = "wait" THEN "void" ELSE "true")
       ELSE /\ s_lock' = "free"
            /\ s_pc' = [s_pc EXCEPT ![t] =
                           CASE s_op[t] = "wait"     -> "cv_wait"
                             [] s_op[t] = "try_wait" -> "timed_out"
                             [] OTHER                -> "cv_timed"]
            /\ UNCHANGED <<s_count, s_granted, s_result>>
    /\ UNCHANGED <<s_op, s_n, s_init, s_posted>>
    /\ SemPoolUnchanged

\* A thread blocked on m_condition wakes up without a notification.
SemSpuriousWake(t) ==
    /\ s_pc[t] \in {"cv_wait", "cv_timed"}
    /\ s_pc' = [s_pc EXCEPT ![t] = "woken"]
    /\ UNCHANGED <<s_count, s_lock, s_op, s_n, s_result,
                   s_init, s_posted, s_granted>>
    /\ SemPoolUnchanged

\* The timeout_ of a timed_wait elapses while the thread is blocked.
SemTimeout(t) ==
    /\ s_pc[t] = "cv_timed"
    /\ s_pc' = [s_pc EXCEPT ![t] = "timed_out"]
    /\ UNCHANGED <<s_count, s_lock, s_op, s_n, s_result,
                   s_init, s_posted, s_granted>>
    /\ SemPoolUnchanged

\* Semaphore::timed_wait after the timeout with --m_count in place of
\* m_count -= result.
SemLastPred_AlwaysTakes(t) ==
    /\ s_pc[t] = "last_pred"
    /\ s_lock = t
    /\ s_count' = s_count - 1
    /\ IF IsAvailable(s_count)
       THEN /\ s_granted' = s_granted + 1
            /\ SemReturn(t, "true")
       ELSE /\ UNCHANGED s_granted
            /\ SemReturn(t, "false")
    /\ UNCHANGED <<s_op, s_n, s_init, s_posted>>
    /\ SemPoolUnchanged

\* Semaphore::timed_wait after the timeout: wait_for returns IsAvailable(),
\* m_count -= result, return result.
SemLastPred(t) ==
    /\ s_pc[t] = "last_pred"
    /\ s_lock = t
    /\ IF IsAvailable(s_count)
       THEN /\ s_count' = s_count - 1
            /\ s_granted' = s_granted + 1
            /\ SemReturn(t, "true")
       ELSE /\ UNCHANGED <<s_count, s_granted>>
            /\ SemReturn(t, "false")
    /\ UNCHANGED <<s_op, s_n, s_init, s_posted>>
    /\ SemPoolUnchanged

SemNext ==
    \/ \E t \in SemThreads, n \in 1..MaxPosted : SemCall(t, "post", n)
    \/ \E t \in SemThreads, o \in {"wait", "try_wait", "timed_wait"} :
           SemCall(t, o, 0)
    \/ \E t \in SemThreads : SemLock(t)
    \/ \E t \in SemThreads : SemPost(t)
    \/ \E t \in SemThreads : SemPred(t)
    \/ \E t \in SemThreads : SemSpuriousWake(t)
    \/ \E t \in SemThreads : SemTimeout(t)
    \/ \E t \in SemThreads : SemLastPred(t)

SemSpec == SemInit /\ [][SemNext]_vars

\* The steps of thread t inside a Semaphore method.  A thread that can
\* take the free m_lock, or that holds it, is scheduled eventually; nothing
\* obliges a caller to start a call, a timeout to elapse or a spurious
\* wake-up to happen.
SemStep(t) == SemLock(t) \/ SemPost(t) \/ SemPred(t) \/ SemLastPred(t)

SemFairSpec == SemSpec /\ \A t \in SemThreads : WF_vars(SemStep(t))

(* ------------------------------------------------------------------------ *)
(* C2                                                                       *)
(* ------------------------------------------------------------------------ *)

\* C2: on a Semaphore created with count s_init, the number of successful
\* waits (wait, try_wait, timed_wait) never exceeds s_init plus the sum of
\* the n posted, m_count is never below 0, and every successful wait took
\* exactly one permit.
C2_NoOverGrant ==
    /\ s_granted <= s_init + s_posted
    /\ s_count >= 0
    /\ s_count + s_granted = s_init + s_posted

\* Every permit has been granted, by more than one successful wait and
\* after a post, while another thread stays blocked in wait().
C2_Witness ==
    /\ s_posted > 0
    /\ s_granted >= 2
    /\ s_granted = s_init + s_posted
    /\ \E t \in SemThreads : s_op[t] = "wait" /\ s_pc[t] = "cv_wait"

(* ------------------------------------------------------------------------ *)
(* C16, C17                                                                 *)
(* ------------------------------------------------------------------------ *)

\* Thread t returns from the method it is in.
SemReturns(t) == s_pc[t] # "idle" /\ s_pc'[t] = "idle"

\* C16: try_wait() never blocks on m_condition and a timed_wait whose
\* timeout has elapsed does not block on it again; each of the two returns
\* true exactly when the count was > 0 at its last test and it took exactly
\* one permit, and false with the count unchanged otherwise.  try_wait() is
\* timed_wait with a zero timeout: the same return step, reached without a
\* stay on m_condition.
C16_TryAndTimedWait ==
    [][\A t \in SemThreads :
         /\ s_op[t] = "try_wait"
                => s_pc'[t] \notin {"cv_wait", "cv_timed", "woken"}
         /\ s_pc[t] = "timed_out"
                => s_pc'[t] \in {"timed_out", "last_pred"}
         /\ (s_op[t] \in {"try_wait", "timed_wait"} /\ SemReturns(t))
                => /\ s_result'[t] \in {"true", "false"}
                   /\ s_result'[t] = "true"
                          <=> (s_count > 0 /\ s_count' = s_count - 1)
                   /\ s_result'[t] = "false"
                          <=> (s_count = 0 /\ s_count' = s_count)]_vars

\* On a Semaphore created empty a try_wait() has returned false and a
\* timed_wait, served by a post, has returned true.
C16_Witness ==
    /\ s_init = 0
    /\ \E t, u \in SemThreads :
           /\ s_op[t] = "try_wait" /\ s_result[t] = "false"
           /\ s_op[u] = "timed_wait" /\ s_result[u] = "true"

\* Thread t is inside wait().
InWait(t) == s_op[t] = "wait" /\ s_pc[t] # "idle"

\* C17: post wakes every waiter: no thread is blocked on m_condition while
\* the count is > 0, and no thread stays inside wait() for ever while the
\* count remains > 0, so waiters whose permits were posted and not taken by
\* others all return.
C17_NoLostWakeUp ==
    /\ [](\A t \in SemThreads :
              s_pc[t] \in {"cv_wait", "cv_timed"} => s_count = 0)
    /\ \A t \in SemThreads : []<>(s_count = 0 \/ ~InWait(t))

\* Two threads blocked in wait() have been woken by one post that left a
\* permit for each.
C17_Witness ==
    \E t, u \in SemThreads :
        /\ t # u
        /\ s_op[t] = "wait" /\ s_pc[t] = "woken"
        /\ s_op[u] = "wait" /\ s_pc[u] = "woken"
        /\ s_count >= 2

====
